---- MODULE Spec2Model ----
(***************************************************************************)
(* Model of the fx-di demo HTTP server (src/main.go; the lifecycle hooks   *)
(* are identical in src/unnamed/part_000 and src/unnamed/part_001).        *)
(*                                                                         *)
(* Two specifications:                                                     *)
(*   Spec / FairSpec  the lifecycle: main builds the ServeMux, the fx      *)
(*                    supervisor runs OnStart and OnStop, the goroutine    *)
(*                    spawned by "go srv.Serve(ln)" accepts connections,   *)
(*                    and each connection serves requests;                 *)
(*   HandlerSpec      one request handled by EchoHandler.ServeHTTP or      *)
(*                    HelloHandler.ServeHTTP, step by step.                *)
(* The calls into net/http (Serve, Shutdown, ServeMux.Handle, the          *)
(* ResponseWriter) are modelled by what the standard library does at the   *)
(* line of the source that calls them, as of Go 1.20 and later: Shutdown   *)
(* sets inShutdown, closes the registered listeners, waits for the Serve   *)
(* calls to return, then polls closeIdleConns until no connection is left  *)
(* or its context is done.  The fx supervisor runs OnStart once, and       *)
(* OnStop only after OnStart has returned nil.                             *)
(***************************************************************************)
EXTENDS Integers, Sequences, FiniteSets, TLC

\* ------------------------------------------------------------------ bounds
\* Number of client connections that may reach the server.
MaxConns == 2
\* Longest request body, in bytes.
MaxBody == 2

\* --------------------------------------------------------------- constants
StatusOK == 200
StatusBadRequest == 400
StatusNotFound == 404

VARIABLES
    route1, route2,   \* the two Routes fx hands to NewServeMux
    mux,              \* the *http.ServeMux built by NewServeMux
    appPc,            \* position of main / the OnStart hook
    portTaken,        \* ":8080" is bound by some other process
    ln,               \* the listener of OnStart: "none", "open", "closed"
    startRet,         \* what OnStart returned: "none", "nil", "err"
    serveTasks,       \* number of "go srv.Serve(ln)" goroutines spawned
    servePc,          \* position of the srv.Serve goroutine
    inShutdown,       \* srv.inShutdown
    listeners,        \* srv.listeners: the listeners Serve has registered
    listenerGroup,    \* srv.listenerGroup: Serve calls that have not returned
    conns,            \* the client connections
    stopPc,           \* position of the OnStop hook inside srv.Shutdown
    stopRet,          \* what OnStop returned
    ctxDone,          \* the context given to OnStop is done
    ctxExpiredAtCall, \* ... and was already done when OnStop was called
    lnerr,            \* error of closing the listener in Shutdown
    hpc,              \* position of the handler of the request under study
    req,              \* that request
    resp,             \* its response as the ResponseWriter holds it
    rpos,             \* bytes of the request body read so far
    chunk,            \* bytes read and not yet written (io.Copy's buffer)
    body,             \* the result of io.ReadAll
    nwrites,          \* number of non-empty Writes made on the ResponseWriter
    herr              \* the error the handler saw: "none", "read", "write"

lifeVars == <<route1, route2, mux, appPc, portTaken, ln, startRet, serveTasks,
              servePc, inShutdown, listeners, listenerGroup, conns, stopPc,
              stopRet, ctxDone, ctxExpiredAtCall, lnerr>>
handlerVars == <<hpc, req, resp, rpos, chunk, body, nwrites, herr>>
vars == <<lifeVars, handlerVars>>

Conns == 1..MaxConns

\* ------------------------------------------------------------- the routes
\* A path is the sequence of its segments; a trailing "" is a trailing slash.
EchoPattern == <<"echo">>
HelloPattern == <<"hello">>

\* Route.Pattern(): the path at which a Route is registered.
Pattern(r) == IF r = "echo" THEN EchoPattern ELSE HelloPattern

Routes == {"echo", "hello"}

Paths == {<<"echo">>, <<"hello">>, <<"other">>, <<"echo", "x">>, <<"echo", "">>}

IsPrefix(s, t) == Len(s) <= Len(t) /\ SubSeq(t, 1, Len(s)) = s

\* http.NewServeMux()
EmptyMux == [entries |-> <<>>, panicked |-> FALSE]

\* mux.Handle without the duplicate check (a mutant).
HandleNoDupCheck(m, pattern, h) ==
    IF m.panicked THEN m
    ELSE [m EXCEPT !.entries = Append(@, [pattern |-> pattern, handler |-> h])]

\* mux.Handle(pattern, h): panics when the pattern is already registered.
Handle(m, pattern, h) ==
    IF m.panicked THEN m
    ELSE IF \E i \in 1..Len(m.entries) : m.entries[i].pattern = pattern
         THEN [m EXCEPT !.panicked = TRUE]
         ELSE [m EXCEPT !.entries = Append(@, [pattern |-> pattern, handler |-> h])]

\* NewServeMux(route1, route2)
NewServeMux(r1, r2) ==
    Handle(Handle(EmptyMux, Pattern(r1), r1), Pattern(r2), r2)

\* ServeMux matching: a pattern ending in "/" names a subtree, any other
\* pattern names exactly one path.
MatchPattern(pattern, path) ==
    IF Len(pattern) > 0 /\ pattern[Len(pattern)] = ""
    THEN IsPrefix(SubSeq(pattern, 1, Len(pattern) - 1), path)
    ELSE pattern = path

\* The handler the mux selects for a path: the longest matching pattern, or
\* the NotFound handler.
Dispatch(m, path) ==
    LET hits == {i \in 1..Len(m.entries) : MatchPattern(m.entries[i].pattern, path)}
    IN  IF hits = {} THEN "notfound"
        ELSE LET best == CHOOSE i \in hits :
                     \A j \in hits : Len(m.entries[j].pattern) <= Len(m.entries[i].pattern)
             IN  m.entries[best].handler

\* ------------------------------------------------------------ connections
NoConn == [st |-> "unconnected", path |-> <<>>, h |-> "none"]

\* A connection the server holds open (accepted and not yet closed).
IsOpen(c) == conns[c].st \in {"accepted", "new", "active", "idle"}

\* Closing the listener resets the connections still in its backlog.
DropBacklog(cs) ==
    [c \in Conns |-> IF cs[c].st = "backlog" THEN [cs[c] EXCEPT !.st = "refused"] ELSE cs[c]]

\* ---------------------------------------------------------------- initial
HandlerIdle ==
    /\ hpc = "idle"
    /\ req = [method |-> "GET", path |-> <<>>, body |-> <<>>, readErrAt |-> -1,
              writeErrAt |-> 0, partial |-> 0]
    /\ resp = [status |-> 0, body |-> <<>>]
    /\ rpos = 0
    /\ chunk = <<>>
    /\ body = <<>>
    /\ nwrites = 0
    /\ herr = "none"

LifeInit ==
    /\ route1 \in Routes
    /\ route2 \in Routes
    /\ mux = EmptyMux
    /\ appPc = "new"
    /\ portTaken \in BOOLEAN
    /\ ln = "none"
    /\ startRet = "none"
    /\ serveTasks = 0
    /\ servePc = "none"
    /\ inShutdown = FALSE
    /\ listeners = {}
    /\ listenerGroup = 0
    /\ conns = [c \in Conns |-> NoConn]
    /\ stopPc = "none"
    /\ stopRet = "none"
    /\ ctxDone = FALSE
    /\ ctxExpiredAtCall = FALSE
    /\ lnerr = FALSE

Init == LifeInit /\ HandlerIdle


\* ------------------------------------------------- main: building the mux
\* fx.New runs the constructors: NewServeMux registers both routes, then
\* NewHTTPServer appends the hooks.  A panic of mux.Handle aborts the process.
Construct ==
    /\ appPc = "new"
    /\ mux' = NewServeMux(route1, route2)
    /\ appPc' = IF mux'.panicked THEN "panicked" ELSE "built"
    /\ UNCHANGED <<route1, route2, portTaken, ln, startRet, serveTasks, servePc,
                   inShutdown, listeners, listenerGroup, conns, stopPc, stopRet,
                   ctxDone, ctxExpiredAtCall, lnerr>>
    /\ UNCHANGED handlerVars

\* ----------------------------------------------------------------- OnStart
\* OnStart that spawns the serve task before looking at the error (a mutant).
StartListenLeak ==
    /\ appPc = "built"
    /\ IF portTaken
       THEN /\ startRet' = "err"
            /\ appPc' = "failed"
            /\ serveTasks' = serveTasks + 1
            /\ servePc' = "spawned"
            /\ UNCHANGED ln
       ELSE /\ ln' = "open"
            /\ appPc' = "bound"
            /\ UNCHANGED <<startRet, serveTasks, servePc>>
    /\ UNCHANGED <<route1, route2, mux, portTaken, inShutdown, listeners,
                   listenerGroup, conns, stopPc, stopRet, ctxDone,
                   ctxExpiredAtCall, lnerr>>
    /\ UNCHANGED handlerVars

\* ln, err := net.Listen("tcp", srv.Addr); if err != nil { return err }
StartListen ==
    /\ appPc = "built"
    /\ IF portTaken
       THEN /\ startRet' = "err"
            /\ appPc' = "failed"
            /\ UNCHANGED ln
       ELSE /\ ln' = "open"
            /\ appPc' = "bound"
            /\ UNCHANGED startRet
    /\ UNCHANGED <<route1, route2, mux, portTaken, serveTasks, servePc,
                   inShutdown, listeners, listenerGroup, conns, stopPc, stopRet,
                   ctxDone, ctxExpiredAtCall, lnerr>>
    /\ UNCHANGED handlerVars

\* go srv.Serve(ln)
StartSpawn ==
    /\ appPc = "bound"
    /\ serveTasks' = serveTasks + 1
    /\ servePc' = "spawned"
    /\ appPc' = "spawned"
    /\ UNCHANGED <<route1, route2, mux, portTaken, ln, startRet, inShutdown,
                   listeners, listenerGroup, conns, stopPc, stopRet, ctxDone,
                   ctxExpiredAtCall, lnerr>>
    /\ UNCHANGED handlerVars

\* OnStart that returns only once srv.Serve has returned, as it would
\* without the "go" (a mutant).
StartReturnBlocking ==
    /\ appPc = "spawned"
    /\ servePc = "done"
    /\ startRet' = "nil"
    /\ appPc' = "running"
    /\ UNCHANGED <<route1, route2, mux, portTaken, ln, serveTasks, servePc,
                   inShutdown, listeners, listenerGroup, conns, stopPc, stopRet,
                   ctxDone, ctxExpiredAtCall, lnerr>>
    /\ UNCHANGED handlerVars

\* return nil
StartReturn ==
    /\ appPc = "spawned"
    /\ startRet' = "nil"
    /\ appPc' = "running"
    /\ UNCHANGED <<route1, route2, mux, portTaken, ln, serveTasks, servePc,
                   inShutdown, listeners, listenerGroup, conns, stopPc, stopRet,
                   ctxDone, ctxExpiredAtCall, lnerr>>
    /\ UNCHANGED handlerVars

\* ------------------------------------------------ the srv.Serve goroutine
\* Serve that registers its listener without looking at inShutdown (a mutant).
ServeTrackUnchecked ==
    /\ servePc = "spawned"
    /\ listeners' = listeners \cup {"ln"}
    /\ listenerGroup' = listenerGroup + 1
    /\ servePc' = "accept"
    /\ UNCHANGED <<route1, route2, mux, appPc, portTaken, ln, startRet, serveTasks,
                   inShutdown, conns, stopPc, stopRet, ctxDone, ctxExpiredAtCall, lnerr>>
    /\ UNCHANGED handlerVars

\* Serve's first step, srv.trackListener(&l, true): once the server is
\* shutting down it refuses, Serve returns ErrServerClosed and its deferred
\* l.Close() closes the listener; otherwise the listener is registered.
ServeTrack ==
    /\ servePc = "spawned"
    /\ IF inShutdown
       THEN /\ ln' = "closed"
            /\ conns' = DropBacklog(conns)
            /\ servePc' = "done"
            /\ UNCHANGED <<listeners, listenerGroup>>
       ELSE /\ listeners' = listeners \cup {"ln"}
            /\ listenerGroup' = listenerGroup + 1
            /\ servePc' = "accept"
            /\ UNCHANGED <<ln, conns>>
    /\ UNCHANGED <<route1, route2, mux, appPc, portTaken, startRet, serveTasks,
                   inShutdown, stopPc, stopRet, ctxDone, ctxExpiredAtCall, lnerr>>
    /\ UNCHANGED handlerVars

\* rw, err := l.Accept() returns a connection.
ServeAccept(c) ==
    /\ servePc = "accept"
    /\ ln = "open"
    /\ conns[c].st = "backlog"
    /\ conns' = [conns EXCEPT ![c].st = "accepted"]
    /\ servePc' = "accepted"
    /\ UNCHANGED <<route1, route2, mux, appPc, portTaken, ln, startRet, serveTasks,
                   inShutdown, listeners, listenerGroup, stopPc, stopRet, ctxDone,
                   ctxExpiredAtCall, lnerr>>
    /\ UNCHANGED handlerVars

\* c := srv.newConn(rw); c.setState(StateNew); go c.serve(ctx)
ServeTrackConn ==
    /\ servePc = "accepted"
    /\ conns' = [c \in Conns |->
                   IF conns[c].st = "accepted" THEN [conns[c] EXCEPT !.st = "new"] ELSE conns[c]]
    /\ servePc' = "accept"
    /\ UNCHANGED <<route1, route2, mux, appPc, portTaken, ln, startRet, serveTasks,
                   inShutdown, listeners, listenerGroup, stopPc, stopRet, ctxDone,
                   ctxExpiredAtCall, lnerr>>
    /\ UNCHANGED handlerVars

\* l.Accept() fails on the closed listener: Serve returns and its deferred
\* srv.trackListener(&l, false) unregisters the listener.
ServeAcceptErr ==
    /\ servePc = "accept"
    /\ ln = "closed"
    /\ servePc' = "done"
    /\ listeners' = listeners \ {"ln"}
    /\ listenerGroup' = listenerGroup - 1
    /\ UNCHANGED <<route1, route2, mux, appPc, portTaken, ln, startRet, serveTasks,
                   inShutdown, conns, stopPc, stopRet, ctxDone, ctxExpiredAtCall, lnerr>>
    /\ UNCHANGED handlerVars

\* ------------------------------------------- clients and their connections
\* A client connects: the kernel queues the connection on the bound port.
ClientConnect(c) ==
    /\ ln = "open"
    /\ conns[c].st = "unconnected"
    /\ conns' = [conns EXCEPT ![c].st = "backlog"]
    /\ UNCHANGED <<route1, route2, mux, appPc, portTaken, ln, startRet, serveTasks,
                   servePc, inShutdown, listeners, listenerGroup, stopPc, stopRet,
                   ctxDone, ctxExpiredAtCall, lnerr>>
    /\ UNCHANGED handlerVars

\* c.serve reads a request and calls the mux, which calls the handler.
ConnRead(c, path) ==
    /\ conns[c].st \in {"new", "idle"}
    /\ conns' = [conns EXCEPT ![c] = [st |-> "active", path |-> path, h |-> Dispatch(mux, path)]]
    /\ UNCHANGED <<route1, route2, mux, appPc, portTaken, ln, startRet, serveTasks,
                   servePc, inShutdown, listeners, listenerGroup, stopPc, stopRet,
                   ctxDone, ctxExpiredAtCall, lnerr>>
    /\ UNCHANGED handlerVars

\* The handler returns: the connection is kept alive, unless the server is
\* shutting down (srv.doKeepAlives), in which case c.serve closes it.
ConnFinish(c) ==
    /\ conns[c].st = "active"
    /\ conns' = [conns EXCEPT ![c] = [st |-> IF inShutdown THEN "closed" ELSE "idle",
                                      path |-> <<>>, h |-> "none"]]
    /\ UNCHANGED <<route1, route2, mux, appPc, portTaken, ln, startRet, serveTasks,
                   servePc, inShutdown, listeners, listenerGroup, stopPc, stopRet,
                   ctxDone, ctxExpiredAtCall, lnerr>>
    /\ UNCHANGED handlerVars

\* The client closes a connection on which no request is being served.
ClientClose(c) ==
    /\ conns[c].st \in {"new", "idle"}
    /\ conns' = [conns EXCEPT ![c].st = "closed"]
    /\ UNCHANGED <<route1, route2, mux, appPc, portTaken, ln, startRet, serveTasks,
                   servePc, inShutdown, listeners, listenerGroup, stopPc, stopRet,
                   ctxDone, ctxExpiredAtCall, lnerr>>
    /\ UNCHANGED handlerVars


\* ------------------------------------------------ OnStop: srv.Shutdown(ctx)
\* Shutdown's first statement, srv.inShutdown.Store(true).  The supervisor
\* calls OnStop only after OnStart has returned nil; the context it passes
\* may already be done.
StopBegin(expired) ==
    /\ appPc = "running"
    /\ stopPc = "none"
    /\ inShutdown' = TRUE
    /\ ctxDone' = expired
    /\ ctxExpiredAtCall' = expired
    /\ stopPc' = "closeListeners"
    /\ UNCHANGED <<route1, route2, mux, appPc, portTaken, ln, startRet, serveTasks,
                   servePc, listeners, listenerGroup, conns, stopRet, lnerr>>
    /\ UNCHANGED handlerVars

\* lnerr := srv.closeListenersLocked(): closes the listeners Serve has
\* registered, and only those.
StopCloseListeners(failed) ==
    /\ stopPc = "closeListeners"
    /\ IF "ln" \in listeners
       THEN /\ ln' = "closed"
            /\ conns' = DropBacklog(conns)
            /\ lnerr' = failed
       ELSE /\ failed = FALSE
            /\ UNCHANGED <<ln, conns, lnerr>>
    /\ stopPc' = "waitListeners"
    /\ UNCHANGED <<route1, route2, mux, appPc, portTaken, startRet, serveTasks,
                   servePc, inShutdown, listeners, listenerGroup, stopRet, ctxDone,
                   ctxExpiredAtCall>>
    /\ UNCHANGED handlerVars

\* srv.listenerGroup.Wait(): until every registered Serve call has returned.
StopWaitListeners ==
    /\ stopPc = "waitListeners"
    /\ listenerGroup = 0
    /\ stopPc' = "poll"
    /\ UNCHANGED <<route1, route2, mux, appPc, portTaken, ln, startRet, serveTasks,
                   servePc, inShutdown, listeners, listenerGroup, conns, stopRet,
                   ctxDone, ctxExpiredAtCall, lnerr>>
    /\ UNCHANGED handlerVars

\* srv.closeIdleConns(): closes the idle connections, and the connections
\* that have been in StateNew for over five seconds (stale); reports whether
\* no other connection is left.
CloseIdleConns(cs, stale) ==
    [c \in Conns |->
        IF cs[c].st = "idle" \/ (cs[c].st = "new" /\ c \in stale)
        THEN [cs[c] EXCEPT !.st = "closed"] ELSE cs[c]]

Quiescent(cs, stale) ==
    \A c \in Conns : ~(cs[c].st = "active" \/ (cs[c].st = "new" /\ c \notin stale))

\* Shutdown that returns after its first poll whatever it found (a mutant).
StopPollOnce(stale) ==
    /\ stopPc = "poll"
    /\ stale \subseteq {c \in Conns : conns[c].st = "new"}
    /\ conns' = CloseIdleConns(conns, stale)
    /\ stopRet' = IF lnerr THEN "lnerr" ELSE "nil"
    /\ stopPc' = "returned"
    /\ UNCHANGED <<route1, route2, mux, appPc, portTaken, ln, startRet, serveTasks,
                   servePc, inShutdown, listeners, listenerGroup, ctxDone,
                   ctxExpiredAtCall, lnerr>>
    /\ UNCHANGED handlerVars

\* The head of Shutdown's loop: if srv.closeIdleConns() { return lnerr }
StopPoll(stale) ==
    /\ stopPc = "poll"
    /\ stale \subseteq {c \in Conns : conns[c].st = "new"}
    /\ conns' = CloseIdleConns(conns, stale)
    /\ IF Quiescent(conns, stale)
       THEN /\ stopRet' = IF lnerr THEN "lnerr" ELSE "nil"
            /\ stopPc' = "returned"
       ELSE /\ stopPc' = "select"
            /\ UNCHANGED stopRet
    /\ UNCHANGED <<route1, route2, mux, appPc, portTaken, ln, startRet, serveTasks,
                   servePc, inShutdown, listeners, listenerGroup, ctxDone,
                   ctxExpiredAtCall, lnerr>>
    /\ UNCHANGED handlerVars

\* Shutdown that swallows the context's error (a mutant).
StopSelectCtxSwallow ==
    /\ stopPc = "select"
    /\ ctxDone
    /\ stopRet' = "nil"
    /\ stopPc' = "returned"
    /\ UNCHANGED <<route1, route2, mux, appPc, portTaken, ln, startRet, serveTasks,
                   servePc, inShutdown, listeners, listenerGroup, conns, ctxDone,
                   ctxExpiredAtCall, lnerr>>
    /\ UNCHANGED handlerVars

\* select { case <-ctx.Done(): return ctx.Err() ... }: the connections that
\* are still open stay open.
StopSelectCtx ==
    /\ stopPc = "select"
    /\ ctxDone
    /\ stopRet' = "ctxErr"
    /\ stopPc' = "returned"
    /\ UNCHANGED <<route1, route2, mux, appPc, portTaken, ln, startRet, serveTasks,
                   servePc, inShutdown, listeners, listenerGroup, conns, ctxDone,
                   ctxExpiredAtCall, lnerr>>
    /\ UNCHANGED handlerVars

\* select { ... case <-timer.C: } and around the loop again.
StopSelectTimer ==
    /\ stopPc = "select"
    /\ stopPc' = "poll"
    /\ UNCHANGED <<route1, route2, mux, appPc, portTaken, ln, startRet, serveTasks,
                   servePc, inShutdown, listeners, listenerGroup, conns, stopRet,
                   ctxDone, ctxExpiredAtCall, lnerr>>
    /\ UNCHANGED handlerVars

\* The deadline of the context given to OnStop passes.
DeadlineFires ==
    /\ stopPc \notin {"none", "returned"}
    /\ ~ctxDone
    /\ ctxDone' = TRUE
    /\ UNCHANGED <<route1, route2, mux, appPc, portTaken, ln, startRet, serveTasks,
                   servePc, inShutdown, listeners, listenerGroup, conns, stopPc,
                   stopRet, ctxExpiredAtCall, lnerr>>
    /\ UNCHANGED handlerVars

\* ------------------------------------------------------ the specification
ServeStep ==
    \/ ServeTrack
    \/ \E c \in Conns : ServeAccept(c)
    \/ ServeTrackConn
    \/ ServeAcceptErr

StopStep ==
    \/ StopCloseListeners(TRUE)
    \/ StopCloseListeners(FALSE)
    \/ StopWaitListeners
    \/ \E stale \in SUBSET Conns : StopPoll(stale)
    \/ StopSelectCtx
    \/ StopSelectTimer

Next ==
    \/ Construct
    \/ StartListen
    \/ StartSpawn
    \/ StartReturn
    \/ ServeTrack
    \/ \E c \in Conns : ServeAccept(c)
    \/ ServeTrackConn
    \/ ServeAcceptErr
    \/ \E c \in Conns : ClientConnect(c)
    \/ \E c \in Conns, path \in Paths : ConnRead(c, path)
    \/ \E c \in Conns : ConnFinish(c)
    \/ \E c \in Conns : ClientClose(c)
    \/ \E expired \in BOOLEAN : StopBegin(expired)
    \/ \E failed \in BOOLEAN : StopCloseListeners(failed)
    \/ StopWaitListeners
    \/ \E stale \in SUBSET Conns : StopPoll(stale)
    \/ StopSelectCtx
    \/ StopSelectTimer
    \/ DeadlineFires

Spec == Init /\ [][Next]_vars

\* The Go scheduler runs every runnable goroutine: the Serve goroutine and
\* the goroutine inside Shutdown keep taking their steps.  Clients and the
\* handlers are under no obligation.
FairSpec == Spec /\ WF_vars(ServeStep) /\ WF_vars(StopStep)

\* The lifecycle state of the server (spec.md, section 4.3).
State ==
    IF startRet = "err" THEN "Failed"
    ELSE IF stopPc = "returned" THEN "Stopped"
    ELSE IF stopPc # "none" THEN "ShuttingDown"
    ELSE IF ln # "none" THEN "Listening"
    ELSE "Unstarted"


\* ====================================================== lifecycle claims

\* C1: when OnStart cannot bind ":8080" it returns the bind error, and in
\* every state after that no serve task was ever spawned or is running and
\* no listener is owned.
C1_FailedStartLeavesNothing ==
    /\ (portTaken /\ appPc \notin {"new", "built", "panicked"} => startRet = "err")
    /\ (startRet = "err" =>
            /\ serveTasks = 0
            /\ servePc = "none"
            /\ ln = "none"
            /\ listeners = {}
            /\ \A c \in Conns : conns[c].st = "unconnected")

C1_Witness == startRet = "err" /\ appPc = "failed" /\ portTaken

\* C2, as stated: once OnStop has returned, no connection of the server is
\* still open, whatever was in flight.
C2_NoOpenConnAfterStop ==
    stopPc = "returned" => \A c \in Conns : ~IsOpen(c)

\* C2, amended: Shutdown stops the accepting, and returns either after every
\* connection was closed (nil, or the listener's close error) or, once the
\* context is done with requests still in flight, the context's error, and
\* then it leaves those connections open.
C2_StopDrainsOrReturnsCtxErr ==
    /\ (stopPc \in {"poll", "select", "returned"} => servePc \notin {"accept", "accepted"})
    /\ (stopPc = "returned" /\ stopRet # "ctxErr" => \A c \in Conns : ~IsOpen(c))
    /\ (stopRet = "ctxErr" => ctxDone /\ stopPc = "returned")
    /\ (stopPc = "returned" => stopRet \in {"nil", "lnerr", "ctxErr"})
    /\ (stopPc = "returned" /\ lnerr => stopRet # "nil")
    /\ (stopRet = "lnerr" => lnerr)

C2_Witness ==
    /\ stopPc = "returned"
    /\ stopRet = "ctxErr"
    /\ \E c \in Conns : conns[c].st = "active"

\* C3, as stated: after OnStop, called with a context that is already done,
\* has returned, the port is no longer bound.
C3_PortFreeAfterExpiredStop ==
    stopPc = "returned" /\ ctxExpiredAtCall => ln # "open"

\* C4: OnStart returns nil without waiting on the serve loop: each of its
\* steps after the bind can be taken whatever the serve task has done, the
\* listener is bound when it returns, and exactly one serve task was spawned.
C4_StartDoesNotBlock ==
    /\ serveTasks <= 1
    /\ (appPc = "bound" => ln = "open" /\ ENABLED StartSpawn)
    /\ (appPc = "spawned" => ln = "open" /\ serveTasks = 1 /\ ENABLED StartReturn)
    /\ (startRet = "nil" => serveTasks = 1 /\ ln # "none")
    /\ (servePc # "none" => serveTasks = 1)

C4_Witness == startRet = "nil" /\ servePc = "spawned" /\ stopPc = "none"

Edges ==
    {<<"Unstarted", "Listening">>, <<"Listening", "ShuttingDown">>,
     <<"Listening", "Stopped">>, <<"ShuttingDown", "Stopped">>,
     <<"Unstarted", "Failed">>}

EdgeOK == State' = State \/ <<State, State'>> \in Edges

Serving == \E c \in Conns : conns[c].st = "active"

\* C5, as stated: the state moves only along the edges of the state machine
\* and a request is being served only in Listening or ShuttingDown.
C5_ServedOnlyWhileListening ==
    [][EdgeOK /\ (Serving' => State' \in {"Listening", "ShuttingDown"})]_vars

\* C5, amended: the state moves only along the edges, and a request is being
\* served only in Listening or ShuttingDown, or in Stopped after OnStop
\* returned the context's error.
C5_ServedOnlyWhileListeningOrCut ==
    [][/\ EdgeOK
       /\ Serving' => \/ State' \in {"Listening", "ShuttingDown"}
                      \/ State' = "Stopped" /\ stopRet' = "ctxErr"]_vars

C5_Witness ==
    /\ State = "Stopped"
    /\ \E c \in Conns : conns[c].st = "active" /\ conns[c].h \in Routes

\* C9: two routes with the same pattern make NewServeMux panic before
\* OnStart runs, so the server never listens with two registrations of one
\* pattern; and a request being served is with the handler registered for
\* exactly its path, or with NotFound when there is none.
C9_DuplicatePatternFailsConstruction ==
    /\ (Pattern(route1) = Pattern(route2) =>
            appPc \in {"new", "panicked"} /\ ln = "none" /\ startRet = "none")
    /\ (ln # "none" =>
            \A i, j \in 1..Len(mux.entries) :
                i # j => mux.entries[i].pattern # mux.entries[j].pattern)
    /\ \A c \in Conns : conns[c].st = "active" =>
            \/ \E i \in 1..Len(mux.entries) :
                   /\ mux.entries[i].pattern = conns[c].path
                   /\ mux.entries[i].handler = conns[c].h
            \/ /\ conns[c].h = "notfound"
               /\ \A i \in 1..Len(mux.entries) : mux.entries[i].pattern # conns[c].path

C9_Witness == appPc = "panicked" /\ route1 = route2 /\ mux.panicked

\* C10: whenever OnStop runs, also before the serve task has registered the
\* listener, the listener is eventually closed and the serve task eventually
\* returns; and once OnStop has returned no connection is accepted.
C10_StopBeforeServeRegisters ==
    /\ [][stopPc = "returned" =>
            \A c \in Conns : conns'[c].st = "accepted" => conns[c].st = "accepted"]_vars
    /\ (stopPc # "none") ~> (ln = "closed" /\ servePc = "done")

C10_Witness == stopPc = "returned" /\ servePc = "spawned" /\ ln = "open"


\* ============================================================ the handlers

\* The byte values request bodies are made of: a control character (the
\* newline) and a letter.
Bytes == {10, 97}

Methods == {"GET", "POST", "HEAD"}

IsControl(b) == b < 32 \/ b = 127

\* "hello, "
HelloPrefix == <<104, 101, 108, 108, 111, 44, 32>>

\* "internal server error"
InternalErrorMsg ==
    <<105, 110, 116, 101, 114, 110, 97, 108, 32, 115, 101, 114, 118, 101, 114,
      32, 101, 114, 114, 111, 114>>

\* "404 page not found"
NotFoundMsg ==
    <<52, 48, 52, 32, 112, 97, 103, 101, 32, 110, 111, 116, 32, 102, 111, 117, 110, 100>>

Newline == <<10>>

Bodies == UNION {[1..n -> Bytes] : n \in 0..MaxBody}

\* The requests under study.  readErrAt = k >= 0: reading the body fails once
\* k bytes were delivered.  writeErrAt = n >= 1: the connection breaks at the
\* n-th non-empty Write, after `partial` bytes of it went out.
Requests ==
    {r \in [method : Methods, path : {<<"echo">>, <<"hello">>, <<"other">>},
            body : Bodies, readErrAt : -1..MaxBody, writeErrAt : 0..2,
            partial : 0..1] :
        /\ r.readErrAt <= Len(r.body)
        /\ (r.writeErrAt = 0 => r.partial = 0)}

\* ------------------------------------------------------ the ResponseWriter
\* w.WriteHeader(code): the first call sets the status, a later one is
\* superfluous and changes nothing.
WriteHeader(r, code) == IF r.status # 0 THEN r ELSE [r EXCEPT !.status = code]

\* Whether the n-th non-empty Write fails.
WriteFails(n) == req.writeErrAt # 0 /\ n >= req.writeErrAt

\* w.Write(data): commits the header with status 200 if none was written,
\* then sends the data; a HEAD response has no body, its writes are eaten.
\* Gives the ResponseWriter after the call and whether the call failed.
Write(r, data, n) ==
    LET r1 == WriteHeader(r, StatusOK)
    IN  IF Len(data) = 0 \/ req.method = "HEAD" THEN [resp |-> r1, err |-> FALSE]
        ELSE IF WriteFails(n)
             THEN [resp |-> [r1 EXCEPT !.body =
                                @ \o SubSeq(data, 1, IF n = req.writeErrAt THEN req.partial ELSE 0)],
                   err |-> TRUE]
             ELSE [resp |-> [r1 EXCEPT !.body = @ \o data], err |-> FALSE]

\* http.Error(w, msg, code): w.WriteHeader(code); fmt.Fprintln(w, msg)
HttpError(r, msg, code, n) == Write(WriteHeader(r, code), msg \o Newline, n).resp

\* What r.Body.Read can still deliver before it ends or fails.
ReadLimit == IF req.readErrAt >= 0 THEN req.readErrAt ELSE Len(req.body)

\* ------------------------------------------------------------ HandlerSpec
\* A request has arrived on a connection of the running server.
HandlerInit ==
    /\ route1 = "echo"
    /\ route2 = "hello"
    /\ mux = NewServeMux(route1, route2)
    /\ appPc = "running"
    /\ portTaken = FALSE
    /\ ln = "open"
    /\ startRet = "nil"
    /\ serveTasks = 1
    /\ servePc = "accept"
    /\ inShutdown = FALSE
    /\ listeners = {"ln"}
    /\ listenerGroup = 1
    /\ req \in Requests
    /\ conns = [c \in Conns |-> IF c = 1 THEN [st |-> "new", path |-> <<>>, h |-> "none"]
                                ELSE NoConn]
    /\ stopPc = "none"
    /\ stopRet = "none"
    /\ ctxDone = FALSE
    /\ ctxExpiredAtCall = FALSE
    /\ lnerr = FALSE
    /\ hpc = "dispatch"
    /\ resp = [status |-> 0, body |-> <<>>]
    /\ rpos = 0
    /\ chunk = <<>>
    /\ body = <<>>
    /\ nwrites = 0
    /\ herr = "none"

\* mux.ServeHTTP: picks the handler of the request's path.
HDispatch ==
    /\ hpc = "dispatch"
    /\ conns' = [conns EXCEPT ![1] = [st |-> "active", path |-> req.path,
                                      h |-> Dispatch(mux, req.path)]]
    /\ hpc' = IF conns'[1].h = "echo" THEN "echo_read"
              ELSE IF conns'[1].h = "hello" THEN "hello_read"
              ELSE "notfound"
    /\ UNCHANGED <<route1, route2, mux, appPc, portTaken, ln, startRet, serveTasks,
                   servePc, inShutdown, listeners, listenerGroup, stopPc, stopRet,
                   ctxDone, ctxExpiredAtCall, lnerr>>
    /\ UNCHANGED <<req, resp, rpos, chunk, body, nwrites, herr>>

\* http.NotFound
HNotFound ==
    /\ hpc = "notfound"
    /\ resp' = HttpError(resp, NotFoundMsg, StatusNotFound, nwrites + 1)
    /\ nwrites' = nwrites + 1
    /\ hpc' = "finish"
    /\ UNCHANGED lifeVars
    /\ UNCHANGED <<req, rpos, chunk, body, herr>>

\* io.Copy that stops after its first Read (a mutant).
EchoReadOnce(n) ==
    /\ hpc = "echo_read"
    /\ IF rpos = 0 /\ rpos < ReadLimit
       THEN /\ n \in 1..(ReadLimit - rpos)
            /\ chunk' = SubSeq(req.body, rpos + 1, rpos + n)
            /\ rpos' = rpos + n
            /\ hpc' = "echo_write"
            /\ UNCHANGED herr
       ELSE /\ n = 1
            /\ hpc' = "finish"
            /\ UNCHANGED <<chunk, rpos, herr>>
    /\ UNCHANGED lifeVars
    /\ UNCHANGED <<req, resp, body, nwrites>>

\* EchoHandler.ServeHTTP, io.Copy's Read: the next n bytes of the body, or
\* its end (io.Copy returns nil), or an error (logged, the handler returns).
EchoRead(n) ==
    /\ hpc = "echo_read"
    /\ IF rpos < ReadLimit
       THEN /\ n \in 1..(ReadLimit - rpos)
            /\ chunk' = SubSeq(req.body, rpos + 1, rpos + n)
            /\ rpos' = rpos + n
            /\ hpc' = "echo_write"
            /\ UNCHANGED herr
       ELSE /\ n = 1
            /\ herr' = IF rpos = req.readErrAt THEN "read" ELSE "none"
            /\ hpc' = "finish"
            /\ UNCHANGED <<chunk, rpos>>
    /\ UNCHANGED lifeVars
    /\ UNCHANGED <<req, resp, body, nwrites>>

\* EchoHandler.ServeHTTP, io.Copy's Write of what was read; an error is
\* logged and the handler returns.
EchoWrite ==
    /\ hpc = "echo_write"
    /\ LET w == Write(resp, chunk, nwrites + 1)
       IN  /\ resp' = w.resp
           /\ herr' = IF w.err THEN "write" ELSE "none"
           /\ hpc' = IF w.err THEN "finish" ELSE "echo_read"
    /\ nwrites' = nwrites + 1
    /\ chunk' = <<>>
    /\ UNCHANGED lifeVars
    /\ UNCHANGED <<req, rpos, body>>

\* HelloHandler that writes after a single Read (a mutant).
HelloReadOnce(n) ==
    /\ hpc = "hello_read"
    /\ IF rpos < ReadLimit
       THEN /\ n \in 1..(ReadLimit - rpos)
            /\ body' = body \o SubSeq(req.body, rpos + 1, rpos + n)
            /\ rpos' = rpos + n
            /\ hpc' = "hello_write"
            /\ UNCHANGED <<resp, nwrites, herr>>
       ELSE /\ n = 1
            /\ IF rpos = req.readErrAt
               THEN /\ herr' = "read"
                    /\ resp' = HttpError(resp, InternalErrorMsg, StatusBadRequest, nwrites + 1)
                    /\ nwrites' = nwrites + 1
                    /\ hpc' = "finish"
               ELSE /\ hpc' = "hello_write"
                    /\ UNCHANGED <<resp, nwrites, herr>>
            /\ UNCHANGED <<body, rpos>>
    /\ UNCHANGED lifeVars
    /\ UNCHANGED <<req, chunk>>

\* HelloHandler.ServeHTTP, io.ReadAll: Reads until the end of the body; on an
\* error, http.Error(w, "internal server error", http.StatusBadRequest) and
\* return.
HelloRead(n) ==
    /\ hpc = "hello_read"
    /\ IF rpos < ReadLimit
       THEN /\ n \in 1..(ReadLimit - rpos)
            /\ body' = body \o SubSeq(req.body, rpos + 1, rpos + n)
            /\ rpos' = rpos + n
            /\ UNCHANGED <<hpc, resp, nwrites, herr>>
       ELSE /\ n = 1
            /\ IF rpos = req.readErrAt
               THEN /\ herr' = "read"
                    /\ resp' = HttpError(resp, InternalErrorMsg, StatusBadRequest, nwrites + 1)
                    /\ nwrites' = nwrites + 1
                    /\ hpc' = "finish"
               ELSE /\ hpc' = "hello_write"
                    /\ UNCHANGED <<resp, nwrites, herr>>
            /\ UNCHANGED <<body, rpos>>
    /\ UNCHANGED lifeVars
    /\ UNCHANGED <<req, chunk>>

\* HelloHandler.ServeHTTP: fmt.Fprintf(w, "hello, %s\n", body), one Write of
\* the formatted bytes; on an error, http.Error(w, "internal server error",
\* http.StatusBadRequest) and return.
HelloWrite ==
    /\ hpc = "hello_write"
    /\ LET w == Write(resp, HelloPrefix \o body \o Newline, nwrites + 1)
       IN  IF w.err
           THEN /\ herr' = "write"
                /\ resp' = HttpError(w.resp, InternalErrorMsg, StatusBadRequest, nwrites + 2)
                /\ nwrites' = nwrites + 2
           ELSE /\ resp' = w.resp
                /\ nwrites' = nwrites + 1
                /\ UNCHANGED herr
    /\ hpc' = "finish"
    /\ UNCHANGED lifeVars
    /\ UNCHANGED <<req, rpos, chunk, body>>

\* The handler has returned: the server commits the header with status 200
\* if the handler wrote none, and ends the response.
HFinish ==
    /\ hpc = "finish"
    /\ resp' = WriteHeader(resp, StatusOK)
    /\ hpc' = "done"
    /\ UNCHANGED lifeVars
    /\ UNCHANGED <<req, rpos, chunk, body, nwrites, herr>>

HandlerNext ==
    \/ HDispatch
    \/ HNotFound
    \/ \E n \in 1..MaxBody : EchoRead(n)
    \/ EchoWrite
    \/ \E n \in 1..MaxBody : HelloRead(n)
    \/ HelloWrite
    \/ HFinish

HandlerSpec == HandlerInit /\ [][HandlerNext]_vars

Handler == conns[1].h

NoControl(s) == \A i \in 1..Len(s) : ~IsControl(s[i])


\* ======================================================== handler claims

\* C6, as stated: whatever the method, a request to /echo whose copy met no
\* error gets status 200 and its own body back, byte for byte.
C6_EchoReturnsBodyAnyMethod ==
    hpc = "done" /\ Handler = "echo" /\ herr = "none" =>
        resp.status = StatusOK /\ resp.body = req.body

\* C6, amended: a request to /echo whose copy met no error gets status 200;
\* the response body is the request body byte for byte for every method but
\* HEAD, and empty for HEAD.
C6_EchoReturnsBody ==
    hpc = "done" /\ Handler = "echo" /\ herr = "none" =>
        /\ resp.status = StatusOK
        /\ resp.body = IF req.method = "HEAD" THEN <<>> ELSE req.body

C6_Witness ==
    /\ hpc = "done"
    /\ Handler = "echo"
    /\ herr = "none"
    /\ req.method = "POST"
    /\ Len(req.body) >= 2
    /\ nwrites >= 2

C8_HelloErrorGives400 ==
    hpc = "done" /\ Handler = "hello" /\ herr # "none" =>
        resp.status = StatusBadRequest

====
